---- MODULE Spec2Model ----
(***************************************************************************)
(* A model of QTShortcut.c: QTShortCut_CreateShortcutMovieFile (version    *)
(* dispatch, manual construction of the three nested atoms) and            *)
(* QTShortCut_WriteHandleToFile (delete, create, open, write, resize,      *)
(* close, flush).  The Memory Manager, Gestalt, the Movie Toolbox and the  *)
(* File Manager are the environment: every call into them draws its        *)
(* outcome from the outcomes the call can have in the current state.       *)
(*                                                                         *)
(* OSErr values are written by name ("noErr", "fnfErr", ...).  A file is a  *)
(* sequence of bytes.  `long`, `unsigned long`, `OSType` and `Size` are     *)
(* 32 bits wide on the targets of this code; every size the model computes *)
(* is far below 2^31, so the arithmetic below never wraps.                 *)
(***************************************************************************)
EXTENDS Integers, Sequences, FiniteSets, TLC

\* ------------------------------------------------------------------ bounds
MaxCalls == 2          \* top-level calls made by the client in one run
MaxFaults == 1         \* failures the environment injects in one run
MaxPayloadLen == 1     \* longest data reference handed to the shortcut call
MaxHandleLen == 2      \* longest buffer handed directly to the writer

\* --------------------------------------------------------- program constants
SizeofLong == 4
SizeofOSType == 4
MovieAID == 1836019574               \* 'moov'
MovieDataRefAliasAID == 1835299425   \* 'mdra'
DataRefAID == 1685218662             \* 'dref'
QT4Version == 1024                   \* 0x0400

\* data reference types the client passes: 'alis' and 'url '
DataRefTypes == {1634494835, 1970433056}

\* values Gestalt(gestaltQuickTime) reports: 0x03FF0000, 0x03FFFFFF,
\* 0x04000000 and 0xFFFF0000 (negative as a long)
Versions == {67043328, 67108863, 67108864, -65536}

\* the data reference of length n
DataRefOfLen(n) == [i \in 1..n |-> 170 + i]
DataRefs == {DataRefOfLen(n) : n \in 0..MaxPayloadLen}

\* buffers the client hands to the writer directly
HandleOfLen(n) == [i \in 1..n |-> i]

\* content of the target before the first call
OldContents == {<<>>, <<9, 9, 9, 9>>}

\* what the host's own CreateShortcutMovieFile leaves in the file (opaque)
NativeFile == <<-1>>

\* ------------------------------------------------------------------ memory
NULL == [k |-> "NULL", b |-> <<>>]
Uninit == [k |-> "uninit", b |-> <<>>]
Blk(bytes) == [k |-> "blk", b |-> bytes]

GetHandleSize(h) == Len(h.b)
GetPtrSize(p) == Len(p.b)

Zeroes(n) == [i \in 1..n |-> 0]

\* a 32-bit value as the four bytes it occupies in memory once it has been
\* converted to big-endian order
EndianU32_NtoB(x) ==
    << (x \div 16777216) % 256, (x \div 65536) % 256, (x \div 256) % 256, x % 256 >>

\* *((long *)(*h + off)) = bytes4
Poke32(mem, off, bytes4) ==
    [i \in 1..Len(mem) |-> IF i > off /\ i <= off + 4 THEN bytes4[i - off] ELSE mem[i]]

\* mutant: version 4.0 itself is sent down the manual path
UseNative_gt(v) == ((v \div 65536) % 65536) > 1024

\* ((myVersion >> 16) & 0xffff) >= 0x0400
HiWord(v) == (v \div 65536) % 65536
UseNative(v) == HiWord(v) >= QT4Version

\* myAtomHeaderSize = 2 * sizeof(long)
AtomHeaderSize == 2 * SizeofLong

\* the block NewPtrClear returns, after the two BlockMoves
DataBlock(ty, dr) == EndianU32_NtoB(ty) \o dr

\* mutant: the size fields leave out the four bytes of the data reference type
AtomSize_noTag(n, data) == (n * AtomHeaderSize) + GetPtrSize(data) - SizeofOSType

\* the size field of the atom that has n headers in front of the data
AtomSize(n, data) == (n * AtomHeaderSize) + GetPtrSize(data)

\* the header handle after the six stores
MoovHeaders(data) ==
    LET h0 == Zeroes(3 * AtomHeaderSize)
        h1 == Poke32(h0, 0, EndianU32_NtoB(AtomSize(3, data)))
        h2 == Poke32(h1, 4, EndianU32_NtoB(MovieAID))
        h3 == Poke32(h2, 8, EndianU32_NtoB(AtomSize(2, data)))
        h4 == Poke32(h3, 12, EndianU32_NtoB(MovieDataRefAliasAID))
        h5 == Poke32(h4, 16, EndianU32_NtoB(AtomSize(1, data)))
    IN  Poke32(h5, 20, EndianU32_NtoB(DataRefAID))

\* ------------------------------------------------------------ file manager
\* FSWrite of `bytes` at the mark
WriteAt(data, at, bytes) ==
    SubSeq(data, 1, at) \o bytes \o SubSeq(data, at + Len(bytes) + 1, Len(data))

\* SetEOF: cut the file, or extend it with unspecified (here zero) bytes
Resize(data, n) ==
    IF n <= Len(data) THEN SubSeq(data, 1, n) ELSE data \o Zeroes(n - Len(data))

\* how many of n bytes a failing FSWrite may have written before it failed:
\* none of them, or all but the last
PartialCounts(n) == {0, n - 1}

\* mutant: the byte count is one short
WriteCount_short(h) == GetHandleSize(h) - 1

\* the number of bytes the writer asks FSWrite for: mySize = GetHandleSize(theHandle)
WriteCount(h) == GetHandleSize(h)

VARIABLES
    pc,              \* the statement about to run
    caller,          \* who called the writer: "client" or "create"
    fn,              \* the entry point of the current or last top-level call
    calls,           \* top-level calls started
    faults,          \* failures injected so far
    faulted,         \* a failure was injected during the current call
    TARGET_OS_MAC,   \* the build includes the volume flush
    fileExists, fileData, openRefs,              \* the target on disk, its open references
    mark,            \* the file mark of the reference the current call opened
    theDataRef, theDataRefType,                  \* arguments of the shortcut call
    myVersion, myErr, myData, myMoovAtom,        \* locals of the shortcut call
    theHandle, mySize, myRefNum, wErr,           \* argument and locals of the writer
    hLocked,         \* lock state of the writer's handle
    heap,            \* the transient blocks currently allocated
    log,             \* the calls made during the current top-level call
    result,          \* what the last top-level call returned
    prev             \* summary of the top-level call before the current one

fsVars == <<fileExists, fileData, openRefs, mark>>
createVars == <<theDataRef, theDataRefType, myVersion, myErr, myData, myMoovAtom>>
writerVars == <<theHandle, mySize, myRefNum, wErr, hLocked>>
runVars == <<fn, calls, TARGET_OS_MAC, prev>>
vars == <<pc, caller, fn, calls, faults, faulted, TARGET_OS_MAC,
          fileExists, fileData, openRefs, mark,
          theDataRef, theDataRefType, myVersion, myErr, myData, myMoovAtom,
          theHandle, mySize, myRefNum, wErr, hLocked, heap, log, result, prev>>

Logged(op, what) == log' = Append(log, <<op, what>>)

\* injecting a failure uses up the budget
CanFault == faults < MaxFaults
Fault == CanFault /\ faults' = faults + 1 /\ faulted' = TRUE
NoFault == UNCHANGED <<faults, faulted>>

NoCall == [fn |-> "none", buf |-> <<>>, err |-> "noErr", step |-> "none"]

Init ==
    /\ pc = "idle" /\ caller = "none" /\ fn = "none"
    /\ calls = 0 /\ faults = 0 /\ faulted = FALSE
    /\ TARGET_OS_MAC \in BOOLEAN
    /\ fileExists \in BOOLEAN
    /\ fileData \in (IF fileExists THEN OldContents ELSE {<<>>})
    /\ openRefs = {} /\ mark = 0
    /\ theDataRef = <<>> /\ theDataRefType = 0
    /\ myVersion = 0 /\ myErr = "noErr" /\ myData = Uninit /\ myMoovAtom = Uninit
    /\ theHandle = NULL /\ mySize = 0 /\ myRefNum = 0 /\ wErr = "noErr"
    /\ hLocked = FALSE
    /\ heap = {} /\ log = <<>> /\ result = "noErr" /\ prev = NoCall

\* the calls of lines 191-220, whose results are kept in myErr
StepsFromCreate == {"FSpCreate", "FSpOpenDF", "SetFPos", "FSWrite", "SetEOF", "FSClose",
                    "GetVRefNum", "FlushVol"}

\* the first call of lines 191-220 that failed in the current top-level call
FailedStep ==
    LET F == {i \in DOMAIN log : log[i][1] \in StepsFromCreate /\ log[i][2] # "noErr"}
    IN  IF F = {} THEN "none"
        ELSE LET i == CHOOSE k \in F : \A m \in F : k <= m
             IN  IF log[i][1] # "SetFPos" THEN log[i][1]
                 ELSE IF \E j \in 1..(i - 1) : log[j][1] = "FSWrite"
                      THEN "SetFPos_End" ELSE "SetFPos_Start"

\* summary of the call that has just returned
LastCall ==
    IF fn = "none" THEN NoCall
    ELSE [fn |-> fn, buf |-> theHandle.b, err |-> result, step |-> FailedStep]

\* ------------------------------------------- QTShortCut_CreateShortcutMovieFile
\* the client calls QTShortCut_CreateShortcutMovieFile(theDataRef, theDataRefType, target)
Call_CreateShortcutMovieFile ==
    /\ pc \in {"idle", "returned"} /\ calls < MaxCalls
    /\ \E dr \in DataRefs, ty \in DataRefTypes :
          /\ theDataRef' = dr /\ theDataRefType' = ty
    /\ myVersion' = 0 /\ myErr' = "noErr"
    /\ myData' = Uninit /\ myMoovAtom' = Uninit
    /\ theHandle' = NULL /\ mySize' = 0 /\ myRefNum' = 0 /\ wErr' = "noErr"
    /\ hLocked' = FALSE
    /\ prev' = LastCall
    /\ fn' = "create" /\ caller' = "client" /\ calls' = calls + 1
    /\ faulted' = FALSE /\ log' = <<>> /\ pc' = "Gestalt"
    /\ mark' = 0
    /\ UNCHANGED <<faults, TARGET_OS_MAC, fileExists, fileData, openRefs, heap, result>>

\* mutant: the result of the query is not looked at
AfterGestalt_noCheck(err, v) ==
    IF UseNative(v) THEN "CreateShortcutMovieFile" ELSE "NewPtrClear"

\* lines 77-80 and 90: where control goes after the query
AfterGestalt(err, v) ==
    IF err # "noErr" THEN "bail"
    ELSE IF UseNative(v) THEN "CreateShortcutMovieFile" ELSE "NewPtrClear"

\* lines 76-80: query the QuickTime version and choose the branch
Gestalt ==
    /\ pc = "Gestalt"
    /\ \/ /\ Fault
          /\ myErr' = "gestaltUndefSelectorErr"
          /\ Logged("Gestalt", myErr')
          /\ UNCHANGED myVersion
       \/ /\ NoFault
          /\ \E v \in Versions : myVersion' = v
          /\ myErr' = "noErr"
          /\ Logged("Gestalt", "noErr")
    /\ pc' = AfterGestalt(myErr', myVersion')
    /\ UNCHANGED <<caller, runVars, fsVars, theDataRef, theDataRefType, myData,
                   myMoovAtom, writerVars, heap, result>>

\* lines 83-88 and 158: the Movie Toolbox builds the shortcut file; return
CreateShortcutMovieFile ==
    /\ pc = "CreateShortcutMovieFile"
    /\ \/ /\ Fault
          /\ myErr' = "ioErr"
          /\ UNCHANGED fsVars
       \/ /\ NoFault
          /\ IF openRefs # {}
             THEN myErr' = "fBsyErr" /\ UNCHANGED fsVars
             ELSE /\ myErr' = "noErr"
                  /\ fileExists' = TRUE /\ fileData' = NativeFile
                  /\ UNCHANGED <<openRefs, mark>>
    /\ Logged("CreateShortcutMovieFile", myErr')
    /\ result' = myErr'
    /\ pc' = "returned"
    /\ UNCHANGED <<caller, runVars, theDataRef, theDataRefType, myVersion, myData,
                   myMoovAtom, writerVars, heap>>

\* lines 93-115: initialise the locals, allocate the data block and fill it
NewPtrClear ==
    /\ pc = "NewPtrClear"
    /\ myMoovAtom' = NULL
    /\ \/ /\ Fault
          /\ myData' = NULL
          /\ Logged("NewPtrClear", "NULL")
          /\ pc' = "bail"
          /\ UNCHANGED heap
       \/ /\ NoFault
          /\ myData' = Blk(DataBlock(theDataRefType, theDataRef))
          /\ Logged("NewPtrClear", "myData")
          /\ heap' = heap \cup {"myData"}
          /\ pc' = "NewHandleClear"
    /\ UNCHANGED <<caller, runVars, fsVars, theDataRef, theDataRefType, myVersion,
                   myErr, writerVars, result>>

\* lines 125-135: allocate the header handle and fill in the three headers
NewHandleClear ==
    /\ pc = "NewHandleClear"
    /\ \/ /\ Fault
          /\ myMoovAtom' = NULL
          /\ Logged("NewHandleClear", "NULL")
          /\ pc' = "bail"
          /\ UNCHANGED heap
       \/ /\ NoFault
          /\ myMoovAtom' = Blk(MoovHeaders(myData))
          /\ Logged("NewHandleClear", "myMoovAtom")
          /\ heap' = heap \cup {"myMoovAtom"}
          /\ pc' = "PtrAndHand"
    /\ UNCHANGED <<caller, runVars, fsVars, theDataRef, theDataRefType, myVersion,
                   myErr, myData, writerVars, result>>

\* lines 138-148: append the data block to the headers and call the writer
PtrAndHand ==
    /\ pc = "PtrAndHand"
    /\ \/ /\ Fault
          /\ myErr' = "memFullErr"
          /\ Logged("PtrAndHand", "memFullErr")
          /\ pc' = "bail"
          /\ UNCHANGED <<myMoovAtom, caller, writerVars>>
       \/ /\ NoFault
          /\ myErr' = "noErr"
          /\ myMoovAtom' = Blk(myMoovAtom.b \o SubSeq(myData.b, 1, GetPtrSize(myData)))
          /\ Logged("PtrAndHand", "noErr")
          /\ theHandle' = myMoovAtom' /\ caller' = "create"
          /\ mySize' = 0 /\ myRefNum' = 0 /\ wErr' = "paramErr"
          /\ UNCHANGED hLocked
          /\ pc' = "WriteHandleToFile"
    /\ UNCHANGED <<runVars, fsVars, theDataRef, theDataRefType, myVersion,
                   myData, heap, result>>

\* what a read of a pointer variable can yield: a variable that was jumped
\* over without being initialised holds whatever the stack held
ReadPtr(p) ==
    IF p.k = "uninit" THEN {"NULL", "garbage"}
    ELSE IF p.k = "NULL" THEN {"NULL"} ELSE {"valid"}

DisposeLog(op, name, seen) ==
    IF seen = "NULL" THEN <<>>
    ELSE IF seen = "valid" THEN << <<op, name>> >> ELSE << <<op, "garbage">> >>

\* lines 150-158: release what is not NULL and return; releasing a pointer
\* that was never allocated corrupts the heap, and the program may stop there
Bail ==
    /\ pc = "bail"
    /\ \E d \in ReadPtr(myData), m \in ReadPtr(myMoovAtom), crash \in BOOLEAN :
          /\ crash => "garbage" \in {d, m}
          /\ log' = log \o DisposeLog("DisposePtr", "myData", d)
                        \o DisposeLog("DisposeHandle", "myMoovAtom", m)
          /\ heap' = heap \ ((IF d = "valid" THEN {"myData"} ELSE {})
                             \cup (IF m = "valid" THEN {"myMoovAtom"} ELSE {}))
          /\ IF crash THEN pc' = "crashed" /\ UNCHANGED result
             ELSE pc' = "returned" /\ result' = myErr
    /\ UNCHANGED <<caller, runVars, faults, faulted, fsVars, createVars, writerVars>>

\* --------------------------------------------------- QTShortCut_WriteHandleToFile
\* the client calls QTShortCut_WriteHandleToFile(theHandle, target) itself
Call_WriteHandleToFile ==
    /\ pc \in {"idle", "returned"} /\ calls < MaxCalls
    /\ \E h \in {NULL} \cup {Blk(HandleOfLen(n)) : n \in 0..MaxHandleLen}, lk \in BOOLEAN :
          /\ (h = NULL => ~lk)
          /\ theHandle' = h /\ hLocked' = lk
    /\ mySize' = 0 /\ myRefNum' = 0 /\ wErr' = "paramErr"
    /\ prev' = LastCall
    /\ fn' = "write" /\ caller' = "client" /\ calls' = calls + 1
    /\ faulted' = FALSE /\ log' = <<>> /\ pc' = "WriteHandleToFile"
    /\ theDataRef' = <<>> /\ theDataRefType' = 0
    /\ myVersion' = 0 /\ myErr' = "noErr" /\ myData' = Uninit /\ myMoovAtom' = Uninit
    /\ mark' = 0
    /\ UNCHANGED <<faults, TARGET_OS_MAC, fileExists, fileData, openRefs, heap, result>>

\* the client calls the writer; whatever failed during an earlier call, one
\* step of this call may fail too
Call_WriteHandleToFile_Fresh ==
    /\ pc \in {"idle", "returned"} /\ calls < MaxCalls
    /\ \E h \in {NULL} \cup {Blk(HandleOfLen(n)) : n \in 0..MaxHandleLen}, lk \in BOOLEAN :
          /\ (h = NULL => ~lk)
          /\ theHandle' = h /\ hLocked' = lk
    /\ mySize' = 0 /\ myRefNum' = 0 /\ wErr' = "paramErr"
    /\ prev' = LastCall
    /\ fn' = "write" /\ caller' = "client" /\ calls' = calls + 1
    /\ faults' = 0 /\ faulted' = FALSE /\ log' = <<>> /\ pc' = "WriteHandleToFile"
    /\ mark' = 0
    /\ UNCHANGED <<createVars, TARGET_OS_MAC, fileExists, fileData, openRefs, heap,
                   result>>

\* mutant: the guard is missing, the step runs whatever came before
Proceed_always(err) == TRUE

\* the guard `if (myErr == noErr)` in front of each step after the create
Proceed(err) == err = "noErr"

\* a guarded step whose guard is false
Skip(next) ==
    /\ ~Proceed(wErr)
    /\ pc' = next
    /\ UNCHANGED <<caller, runVars, faults, faulted, fsVars, createVars, writerVars,
                   heap, log, result>>

\* mutant: the test for an empty handle is missing
WriteHandleToFile_noSizeCheck ==
    /\ pc = "WriteHandleToFile"
    /\ IF theHandle = NULL
       THEN /\ pc' = "w_bail"
            /\ UNCHANGED <<mySize, hLocked, log>>
       ELSE /\ mySize' = WriteCount(theHandle)
            /\ hLocked' = TRUE
            /\ Logged("HLock", "theHandle")
            /\ pc' = "FSpDelete"
    /\ UNCHANGED <<caller, runVars, faults, faulted, fsVars, createVars, theHandle,
                   myRefNum, wErr, heap, result>>

\* lines 172-184: reject a null or empty handle, else lock it
WriteHandleToFile ==
    /\ pc = "WriteHandleToFile"
    /\ IF theHandle = NULL
       THEN /\ pc' = "w_bail"
            /\ UNCHANGED <<mySize, hLocked, log>>
       ELSE /\ mySize' = WriteCount(theHandle)
            /\ IF mySize' = 0
               THEN pc' = "w_bail" /\ UNCHANGED <<hLocked, log>>
               ELSE /\ hLocked' = TRUE
                    /\ Logged("HLock", "theHandle")
                    /\ pc' = "FSpDelete"
    /\ UNCHANGED <<caller, runVars, faults, faulted, fsVars, createVars, theHandle,
                   myRefNum, wErr, heap, result>>

\* line 188: delete the target
FSpDelete ==
    /\ pc = "FSpDelete"
    /\ \/ /\ Fault
          /\ wErr' = "ioErr"
          /\ UNCHANGED fsVars
       \/ /\ NoFault
          /\ IF ~fileExists THEN wErr' = "fnfErr" /\ UNCHANGED fsVars
             ELSE IF openRefs # {} THEN wErr' = "fBsyErr" /\ UNCHANGED fsVars
             ELSE /\ wErr' = "noErr"
                  /\ fileExists' = FALSE /\ fileData' = <<>>
                  /\ UNCHANGED <<openRefs, mark>>
    /\ Logged("FSpDelete", wErr')
    /\ pc' = "FSpCreate"
    /\ UNCHANGED <<caller, runVars, createVars, theHandle, mySize, myRefNum, hLocked,
                   heap, result>>

\* line 191: create the target; the result of the delete is overwritten
FSpCreate ==
    /\ pc = "FSpCreate"
    /\ \/ /\ Fault
          /\ wErr' = "ioErr"
          /\ UNCHANGED fsVars
       \/ /\ NoFault
          /\ IF fileExists THEN wErr' = "dupFNErr" /\ UNCHANGED fsVars
             ELSE /\ wErr' = "noErr"
                  /\ fileExists' = TRUE /\ fileData' = <<>>
                  /\ UNCHANGED <<openRefs, mark>>
    /\ Logged("FSpCreate", wErr')
    /\ pc' = "FSpOpenDF"
    /\ UNCHANGED <<caller, runVars, createVars, theHandle, mySize, myRefNum, hLocked,
                   heap, result>>

\* the reference number the File Manager hands out next
NewRefNum == CHOOSE r \in 1..(Cardinality(openRefs) + 1) : r \notin openRefs

\* lines 193-194: open the data fork for reading and writing
FSpOpenDF ==
    /\ pc = "FSpOpenDF"
    /\ \/ Skip("SetFPos_Start")
       \/ /\ Proceed(wErr)
          /\ \/ /\ Fault
                /\ wErr' = "ioErr"
                /\ UNCHANGED <<fsVars, myRefNum>>
             \/ /\ NoFault
                /\ IF ~fileExists THEN wErr' = "fnfErr" /\ UNCHANGED <<fsVars, myRefNum>>
                   ELSE IF openRefs # {} THEN wErr' = "opWrErr" /\ UNCHANGED <<fsVars, myRefNum>>
                   ELSE /\ wErr' = "noErr"
                        /\ myRefNum' = NewRefNum
                        /\ openRefs' = openRefs \cup {myRefNum'}
                        /\ mark' = 0
                        /\ UNCHANGED <<fileExists, fileData>>
          /\ Logged("FSpOpenDF", wErr')
          /\ pc' = "SetFPos_Start"
          /\ UNCHANGED <<caller, runVars, createVars, theHandle, mySize, hLocked,
                         heap, result>>

\* lines 197-198: SetFPos(myRefNum, fsFromStart, 0)
SetFPos_Start ==
    /\ pc = "SetFPos_Start"
    /\ \/ Skip("FSWrite")
       \/ /\ Proceed(wErr)
          /\ \/ /\ Fault
                /\ wErr' = "ioErr"
                /\ UNCHANGED fsVars
             \/ /\ NoFault
                /\ wErr' = "noErr"
                /\ mark' = 0
                /\ UNCHANGED <<fileExists, fileData, openRefs>>
          /\ Logged("SetFPos", wErr')
          /\ pc' = "FSWrite"
          /\ UNCHANGED <<caller, runVars, createVars, theHandle, mySize, myRefNum,
                         hLocked, heap, result>>

\* lines 200-201: FSWrite(myRefNum, &mySize, *theHandle); a failed write
\* has written some of the bytes and reports how many in mySize
FSWrite ==
    /\ pc = "FSWrite"
    /\ \/ Skip("SetFPos_End")
       \/ /\ Proceed(wErr)
          /\ \/ /\ Fault
                /\ wErr' = "dskFulErr"
                /\ \E k \in PartialCounts(mySize) :
                      /\ fileData' = WriteAt(fileData, mark, SubSeq(theHandle.b, 1, k))
                      /\ mark' = mark + k
                      /\ mySize' = k
             \/ /\ NoFault
                /\ wErr' = "noErr"
                /\ fileData' = WriteAt(fileData, mark, SubSeq(theHandle.b, 1, mySize))
                /\ mark' = mark + mySize
                /\ UNCHANGED mySize
          /\ Logged("FSWrite", wErr')
          /\ pc' = "SetFPos_End"
          /\ UNCHANGED <<caller, runVars, createVars, fileExists, openRefs, theHandle,
                         myRefNum, hLocked, heap, result>>

\* lines 203-204: SetFPos(myRefNum, fsFromStart, mySize)
SetFPos_End ==
    /\ pc = "SetFPos_End"
    /\ \/ Skip("SetEOF")
       \/ /\ Proceed(wErr)
          /\ \/ /\ Fault
                /\ wErr' = "ioErr"
                /\ UNCHANGED fsVars
             \/ /\ NoFault
                /\ IF mySize > Len(fileData)
                   THEN wErr' = "eofErr" /\ mark' = Len(fileData)
                   ELSE wErr' = "noErr" /\ mark' = mySize
                /\ UNCHANGED <<fileExists, fileData, openRefs>>
          /\ Logged("SetFPos", wErr')
          /\ pc' = "SetEOF"
          /\ UNCHANGED <<caller, runVars, createVars, theHandle, mySize, myRefNum,
                         hLocked, heap, result>>

\* lines 207-208: SetEOF(myRefNum, mySize)
SetEOF ==
    /\ pc = "SetEOF"
    /\ \/ Skip("FSClose")
       \/ /\ Proceed(wErr)
          /\ \/ /\ Fault
                /\ wErr' = "ioErr"
                /\ UNCHANGED fsVars
             \/ /\ NoFault
                /\ wErr' = "noErr"
                /\ fileData' = Resize(fileData, mySize)
                /\ mark' = IF mark > mySize THEN mySize ELSE mark
                /\ UNCHANGED <<fileExists, openRefs>>
          /\ Logged("SetEOF", wErr')
          /\ pc' = "FSClose"
          /\ UNCHANGED <<caller, runVars, createVars, theHandle, mySize, myRefNum,
                         hLocked, heap, result>>

\* where control goes after the close: the flush is compiled in only
\* #if TARGET_OS_MAC (line 214)
AfterClose == IF TARGET_OS_MAC THEN "GetVRefNum" ELSE "w_bail"

\* lines 211-212: FSClose(myRefNum); a close that fails may or may not
\* have given the reference up
FSClose ==
    /\ pc = "FSClose"
    /\ \/ Skip(AfterClose)
       \/ /\ Proceed(wErr)
          /\ \/ /\ Fault
                /\ wErr' = "ioErr"
                /\ \E open \in BOOLEAN :
                      IF open THEN UNCHANGED <<openRefs, mark>>
                      ELSE openRefs' = openRefs \ {myRefNum} /\ mark' = 0
             \/ /\ NoFault
                /\ wErr' = "noErr"
                /\ openRefs' = openRefs \ {myRefNum} /\ mark' = 0
          /\ Logged("FSClose", wErr')
          /\ pc' = AfterClose
          /\ UNCHANGED <<caller, runVars, createVars, fileExists, fileData,
                         theHandle, mySize, myRefNum, hLocked, heap, result>>

\* lines 216-217: GetVRefNum(myRefNum, &myVolNum); when the reference is
\* no longer open the File Manager reports rfNumErr or answers from the
\* stale control block
GetVRefNum ==
    /\ pc = "GetVRefNum"
    /\ \/ Skip("FlushVol")
       \/ /\ Proceed(wErr)
          /\ \E e \in (IF myRefNum \in openRefs THEN {"noErr"} ELSE {"noErr", "rfNumErr"}) :
                wErr' = e
          /\ Logged("GetVRefNum", wErr')
          /\ pc' = "FlushVol"
          /\ UNCHANGED <<caller, runVars, faults, faulted, fsVars, createVars, theHandle,
                         mySize, myRefNum, hLocked, heap, result>>

\* lines 219-220: FlushVol(NULL, myVolNum)
FlushVol ==
    /\ pc = "FlushVol"
    /\ \/ Skip("w_bail")
       \/ /\ Proceed(wErr)
          /\ \/ Fault /\ wErr' = "ioErr"
             \/ NoFault /\ wErr' = "noErr"
          /\ Logged("FlushVol", wErr')
          /\ pc' = "w_bail"
          /\ UNCHANGED <<caller, runVars, fsVars, createVars, theHandle, mySize,
                         myRefNum, hLocked, heap, result>>

\* lines 223-226 (and 148 in the caller): unlock the handle and return
W_Bail ==
    /\ pc = "w_bail"
    /\ Logged("HUnlock", IF theHandle = NULL THEN "NULL" ELSE "theHandle")
    /\ hLocked' = IF theHandle = NULL THEN hLocked ELSE FALSE
    /\ IF caller = "create"
       THEN myErr' = wErr /\ pc' = "bail" /\ UNCHANGED result
       ELSE result' = wErr /\ pc' = "returned" /\ UNCHANGED myErr
    /\ UNCHANGED <<caller, runVars, faults, faulted, fsVars, theDataRef, theDataRefType,
                   myVersion, myData, myMoovAtom, theHandle, mySize, myRefNum, wErr,
                   heap>>

Next ==
    \/ Call_CreateShortcutMovieFile
    \/ Gestalt
    \/ CreateShortcutMovieFile
    \/ NewPtrClear
    \/ NewHandleClear
    \/ PtrAndHand
    \/ Bail
    \/ Call_WriteHandleToFile
    \/ WriteHandleToFile
    \/ FSpDelete
    \/ FSpCreate
    \/ FSpOpenDF
    \/ SetFPos_Start
    \/ FSWrite
    \/ SetFPos_End
    \/ SetEOF
    \/ FSClose
    \/ GetVRefNum
    \/ FlushVol
    \/ W_Bail

Spec == Init /\ [][Next]_vars

\* the client only ever calls QTShortCut_WriteHandleToFile
NextWriter ==
    \/ Call_WriteHandleToFile_Fresh
    \/ WriteHandleToFile
    \/ FSpDelete
    \/ FSpCreate
    \/ FSpOpenDF
    \/ SetFPos_Start
    \/ FSWrite
    \/ SetFPos_End
    \/ SetEOF
    \/ FSClose
    \/ GetVRefNum
    \/ FlushVol
    \/ W_Bail

SpecWriter == Init /\ [][NextWriter]_vars

TypeOK ==
    /\ pc \in {"idle", "returned", "crashed", "Gestalt", "CreateShortcutMovieFile",
               "NewPtrClear", "NewHandleClear", "PtrAndHand", "bail",
               "WriteHandleToFile", "FSpDelete", "FSpCreate", "FSpOpenDF",
               "SetFPos_Start", "FSWrite", "SetFPos_End", "SetEOF", "FSClose",
               "GetVRefNum", "FlushVol", "w_bail"}
    /\ calls \in 0..MaxCalls /\ faults \in 0..MaxFaults
    /\ (myRefNum \in openRefs => mark \in 0..Len(fileData))
    /\ (openRefs # {} => fileExists)
    /\ (~fileExists => fileData = <<>>)
    /\ heap \subseteq {"myData", "myMoovAtom"}

\* ------------------------------------------------------------------ claims
\* the File Manager calls of the writer
FsOps == {"FSpDelete", "FSpCreate", "FSpOpenDF", "SetFPos", "FSWrite", "SetEOF",
          "FSClose", "GetVRefNum", "FlushVol"}

\* the calls of the current top-level call that are File Manager calls
FsCalls == {i \in DOMAIN log : log[i][1] \in FsOps}

Made(op, what) == \E i \in DOMAIN log : log[i] = <<op, what>>
MadeAny(op) == \E i \in DOMAIN log : log[i][1] = op

\* the writer has returned to whoever called it
WriterDone ==
    \/ fn = "write" /\ pc = "returned"
    \/ fn = "create" /\ caller = "create" /\ pc \in {"bail", "returned", "crashed"}

\* the big-endian 32-bit value at byte offset off of buf
U32At(buf, off) ==
    buf[off + 1] * 16777216 + buf[off + 2] * 65536 + buf[off + 3] * 256 + buf[off + 4]

\* C1: the buffer the manual path hands to the writer has length 28 + N,
\* the big-endian sizes 28 + N, 20 + N and 12 + N at offsets 0x00, 0x08 and
\* 0x10, the tags MovieAID, MovieDataRefAliasAID and DataRefAID at offsets
\* 0x04, 0x0C and 0x14, the payload's tag at 0x18 and the N payload bytes
\* unchanged from 0x1C, for every payload, N = 0 included.
C1_BufferLayout ==
    caller = "create" =>
        LET buf == theHandle.b
            N == Len(theDataRef)
        IN  /\ theHandle.k = "blk"
            /\ Len(buf) = 28 + N
            /\ U32At(buf, 0) = 28 + N
            /\ U32At(buf, 4) = MovieAID
            /\ U32At(buf, 8) = 20 + N
            /\ U32At(buf, 12) = MovieDataRefAliasAID
            /\ U32At(buf, 16) = 12 + N
            /\ U32At(buf, 20) = DataRefAID
            /\ U32At(buf, 24) = theDataRefType
            /\ \A i \in 1..N : buf[28 + i] = theDataRef[i]
            /\ U32At(buf, 0) = Len(buf)
            /\ U32At(buf, 8) = 8 + (Len(buf) - 16)
            /\ U32At(buf, 16) = 8 + (Len(buf) - 24)

\* the writer is entered from the manual path with the 28-byte buffer of an
\* empty payload
C1_Witness ==
    /\ caller = "create" /\ pc = "WriteHandleToFile"
    /\ theDataRef = <<>> /\ Len(theHandle.b) = 28

\* every File Manager call of the current call succeeded (a delete that
\* found no file counts as success)
AllStepsOk ==
    \A i \in FsCalls : \/ log[i][2] = "noErr"
                       \/ log[i] = <<"FSpDelete", "fnfErr">>

\* C2: when every filesystem step succeeds, the writer called with a
\* non-empty buffer returns success and the target holds exactly the bytes
\* of the buffer, whatever the target held before.
C2_ExactContent ==
    (WriterDone /\ theHandle # NULL /\ Len(theHandle.b) > 0) =>
        /\ AllStepsOk => wErr = "noErr"
        /\ wErr = "noErr" => (fileExists /\ fileData = theHandle.b)

\* a successful write of a buffer shorter than the one the call before wrote
C2_Witness ==
    /\ fn = "write" /\ pc = "returned" /\ result = "noErr" /\ AllStepsOk
    /\ prev.fn = "write" /\ prev.err = "noErr"
    /\ Len(prev.buf) > Len(theHandle.b)
    /\ fileData = theHandle.b

\* the steps from create through flush
StepOps == FsOps \ {"FSpDelete"}

\* C3: for each step from create through flush, if the step fails then no
\* later step of the sequence is executed and the writer returns that
\* step's error.
C3_FailureStopsSequence ==
    \A i \in FsCalls :
        (log[i][1] \in StepOps /\ log[i][2] # "noErr") =>
            /\ \A j \in FsCalls : j <= i
            /\ WriterDone => wErr = log[i][2]
            /\ pc = "returned" => result = log[i][2]

\* the write failed: nothing was resized or closed and the caller got the
\* write's error
C3_Witness ==
    /\ fn = "write" /\ pc = "returned"
    /\ Made("FSWrite", "dskFulErr") /\ result = "dskFulErr"
    /\ ~MadeAny("SetEOF") /\ ~MadeAny("FSClose")

\* C4: a failure of the initial removal is ignored only when the target was
\* absent (fnfErr); any other removal failure is what the writer reports to
\* its caller.
C4_RemovalFailureReported ==
    WriterDone =>
        \A i \in FsCalls :
            (log[i][1] = "FSpDelete" /\ log[i][2] \notin {"noErr", "fnfErr"}) =>
                (wErr # "noErr" /\ wErr = log[i][2])

\* C5: after a writer call on a buffer has failed at a filesystem stage, a
\* following writer call on the same buffer in which no new fault occurs
\* returns success and leaves the target holding exactly the buffer
\* (stated for the build without the volume flush).
C5_RetrySucceeds ==
    ( /\ fn = "write" /\ pc = "returned"
      /\ ~TARGET_OS_MAC
      /\ prev.fn = "write" /\ prev.buf = theHandle.b
      /\ prev.err \notin {"noErr", "paramErr"}
      /\ ~faulted ) =>
        (result = "noErr" /\ fileExists /\ fileData = theHandle.b)

\* memory for a transient buffer could not be had during the current call
AllocationFailed ==
    \/ Made("NewPtrClear", "NULL")
    \/ Made("NewHandleClear", "NULL")
    \/ Made("PtrAndHand", "memFullErr")

\* C6: if acquiring memory for the payload block, the header handle or
\* their concatenation fails, the shortcut call returns a non-success error
\* and no filesystem operation has been performed.
C6_AllocationFailureIsError ==
    (fn = "create" /\ AllocationFailed) =>
        /\ FsCalls = {}
        /\ pc = "returned" => result # "noErr"

\* the upper 16 bits of a 32-bit version are at least 0x0400
AtLeastQT4(v) == v < 0 \/ v >= 67108864

\* C7: when the version query succeeds, the shortcut call takes exactly one
\* path: the native call with no buffer built and no writer step when the
\* upper 16 bits of the version are at least 0x0400, the manual path with
\* no native call otherwise.
C7_ExactlyOnePath ==
    (fn = "create" /\ Made("Gestalt", "noErr")) =>
        IF AtLeastQT4(myVersion)
        THEN /\ \A i \in DOMAIN log : log[i][1] \in {"Gestalt", "CreateShortcutMovieFile"}
             /\ theHandle = NULL /\ heap = {}
             /\ pc = "returned" =>
                   Cardinality({i \in DOMAIN log : log[i][1] = "CreateShortcutMovieFile"}) = 1
        ELSE /\ ~MadeAny("CreateShortcutMovieFile")
             /\ pc = "returned" => MadeAny("NewPtrClear")

\* version 4.0 exactly: the native call was made and the call returned
C7_Witness ==
    /\ fn = "create" /\ pc = "returned" /\ myVersion = 67108864
    /\ MadeAny("CreateShortcutMovieFile")

\* C8: when the version query fails, the shortcut call returns the query's
\* error and makes no native call, builds no buffer and performs no
\* filesystem operation.
C8_QueryFailureTakesNoBranch ==
    \A e \in {"gestaltUndefSelectorErr"} :
        (fn = "create" /\ Made("Gestalt", e)) =>
            /\ \A i \in DOMAIN log :
                  log[i][1] \in {"Gestalt", "DisposePtr", "DisposeHandle"}
            /\ theHandle = NULL /\ heap = {}
            /\ myData.k # "blk" /\ myMoovAtom.k # "blk"
            /\ pc = "returned" => result = e

\* the query failed and the call has returned
C8_Witness ==
    /\ fn = "create" /\ pc = "returned"
    /\ Made("Gestalt", "gestaltUndefSelectorErr")
    /\ result = "gestaltUndefSelectorErr"

Count(e) == Cardinality({i \in DOMAIN log : log[i] = e})

\* C10: on every return path of the shortcut call, exactly the transient
\* buffers this call allocated have been released, each once; none stays
\* allocated and no release is applied to a variable that was never
\* allocated or initialised in this call.
C10_ReleasedExactlyOnce ==
    (fn = "create" /\ pc = "returned") =>
        /\ heap = {}
        /\ Count(<<"DisposePtr", "myData">>) = Count(<<"NewPtrClear", "myData">>)
        /\ Count(<<"DisposeHandle", "myMoovAtom">>) = Count(<<"NewHandleClear", "myMoovAtom">>)
        /\ ~Made("DisposePtr", "garbage")
        /\ ~Made("DisposeHandle", "garbage")

\* C12: whenever the writer has opened the target, the file reference is
\* closed before the writer returns, on every path, the paths where
\* position, write or resize fails after the open included.
C12_ClosedBeforeReturn ==
    (WriterDone /\ Made("FSpOpenDF", "noErr")) =>
        (MadeAny("FSClose") /\ myRefNum \notin openRefs)

\* C13: in the build with the volume flush no call made after the close is
\* handed the closed reference, so a run in which create, open, write,
\* resize and close all succeed reaches the flush and, the flush
\* succeeding, returns success.
C13_NoUseAfterClose ==
    (TARGET_OS_MAC /\ Made("FSClose", "noErr")) =>
        /\ ~MadeAny("GetVRefNum")
        /\ (WriterDone /\ ~Made("FlushVol", "ioErr")) =>
              (Made("FlushVol", "noErr") /\ wErr = "noErr")

\* the current call is a writer call that was handed a null or empty buffer
EarlyExit ==
    /\ fn = "write" /\ pc # "idle"
    /\ (theHandle = NULL \/ Len(theHandle.b) = 0)

\* C14: the writer called with a null buffer or a buffer of length 0 returns
\* paramErr and performs no filesystem operation: the target is neither
\* removed nor changed.
C14_NullOrEmptyRejected ==
    /\ [](EarlyExit => /\ FsCalls = {}
                       /\ pc = "returned" => result = "paramErr")
    /\ [][EarlyExit' => UNCHANGED <<fileExists, fileData, openRefs>>]_vars

\* an empty buffer was rejected and the target still holds its old content
C14_Witness ==
    /\ fn = "write" /\ pc = "returned" /\ result = "paramErr"
    /\ theHandle # NULL /\ Len(theHandle.b) = 0
    /\ fileExists /\ fileData = <<9, 9, 9, 9>>

\* C15: the writer unlocks the handle only on paths where it locked that
\* handle earlier in the same call: on the early exits for a null or empty
\* buffer no unlock is applied, so the lock state the caller set is
\* unchanged and no unlock is applied to a null handle.
C15_UnlockOnlyAfterLock ==
    /\ \A i \in DOMAIN log :
          log[i][1] = "HUnlock" =>
              /\ log[i][2] # "NULL"
              /\ \E j \in 1..(i - 1) : log[j][1] = "HLock"
    /\ (EarlyExit /\ pc = "returned") => ~MadeAny("HUnlock")

\* the stage of the write sequence that a step belongs to
StageOf(step) ==
    CASE step = "FSpCreate" -> "create"
      [] step = "FSpOpenDF" -> "open"
      [] step \in {"SetFPos_Start", "FSWrite"} -> "write"
      [] step \in {"SetFPos_End", "SetEOF"} -> "resize"
      [] step = "FSClose" -> "close"
      [] step \in {"GetVRefNum", "FlushVol"} -> "flush"
      [] OTHER -> "none"

\* two client calls of the writer in a row have both failed in a step
TwoFailures ==
    /\ fn = "write" /\ pc = "returned" /\ prev.fn = "write"
    /\ FailedStep # "none" /\ prev.step # "none"

====
